---- MODULE Spec2Model ----
(***************************************************************************)
(* soulver-cli-zipper: the alignment of the output of the `soulver`        *)
(* evaluator with the text that produced it (src/src/soulver.rs) and the   *)
(* `calculate` subcommand that drives it (src/src/main.rs).                *)
(*                                                                         *)
(* A text is a sequence of Unicode scalar values, each written as a        *)
(* one-character string; Len is therefore chars().count().                 *)
(***************************************************************************)
EXTENDS Integers, Sequences, FiniteSets, TLC

VARIABLES
    pc,                 \* "main" before the subcommand ran, "done" after
    input,              \* the text read from standard input (main.rs:35-36)
    no_zip,             \* the --no-zip flag of the call that ran
    soulver_arg,        \* the text handed to the soulver process
    proc,               \* what the soulver process did
    result,             \* what the calculate call returned
    arg_lines,          \* the lines handed to get_number_of_initial_newlines
    initial_newlines    \* what get_number_of_initial_newlines returned

vars == <<pc, input, no_zip, soulver_arg, proc, result, arg_lines, initial_newlines>>

----------------------------------------------------------------------------
(* Bounds and alphabets *)

MaxInputLen == 4
MaxStdoutLen == 3
MaxLines == 3

NL == "\n"
CR == "\r"
SP == " "

\* Scalar values of the input: an ordinary character that takes two bytes in
\* UTF-8, the two comment markers, the space and the newline.
InputChars == {"£", "#", "/", SP, NL}

\* Scalar values of the evaluator's standard output.
StdoutChars == {"1", NL}

SeqsUpTo(S, n) == UNION {[1..k -> S] : k \in 0..n}

Inputs == SeqsUpTo(InputChars, MaxInputLen)

Stdouts == SeqsUpTo(StdoutChars, MaxStdoutLen)

\* Lines handed directly to get_number_of_initial_newlines (as the tests do).
LineSamples ==
    { <<>>, <<"#">>, <<"/", "/">>, <<"/">>, <<SP, "#">>, <<"1">>,
      <<"#", SP, "F">>, <<"/", "/", "B">>, <<SP>>, <<"/", "#">> }

LineSeqs == SeqsUpTo(LineSamples, MaxLines)

----------------------------------------------------------------------------
(* Results: anyhow::Result<String> *)

Ok(text) == [ok |-> TRUE, text |-> text]

Err == [ok |-> FALSE, text |-> <<>>]

\* What the child process can do: fail to start, exit with a failure status,
\* write bytes that are not UTF-8, or succeed with some text on stdout.
ProcOutcomes ==
    [kind : {"ok"}, stdout : Stdouts]
        \cup [kind : {"spawn_failed", "nonzero_exit", "invalid_utf8"}, stdout : {<<>>}]

----------------------------------------------------------------------------
(* Standard-library string operations, as the source uses them *)

is_whitespace(c) == c \in {SP, NL, CR, "\t"}

\* Faulty variant of trim_end: strips trailing newlines only.
RECURSIVE trim_end_newlines_only(_)
trim_end_newlines_only(s) ==
    IF s = <<>> THEN s
    ELSE IF s[Len(s)] = NL THEN trim_end_newlines_only(SubSeq(s, 1, Len(s) - 1))
    ELSE s

RECURSIVE trim_end(_)
trim_end(s) ==
    IF s = <<>> THEN s
    ELSE IF is_whitespace(s[Len(s)]) THEN trim_end(SubSeq(s, 1, Len(s) - 1))
    ELSE s

ends_with(s, c) == s # <<>> /\ s[Len(s)] = c

strip_suffix(s, c) == IF ends_with(s, c) THEN SubSeq(s, 1, Len(s) - 1) ELSE s

starts_with(s, p) == Len(s) >= Len(p) /\ SubSeq(s, 1, Len(p)) = p

\* Position of the first newline of s, 0 when there is none.
FirstNL(s) ==
    IF \E i \in 1..Len(s) : s[i] = NL
    THEN CHOOSE i \in 1..Len(s) : s[i] = NL /\ \A j \in 1..(i - 1) : s[j] # NL
    ELSE 0

\* str::lines: every line ends at a "\n" (or "\r\n") or at the end of the
\* text; the terminator is not part of the line and a final empty line is
\* not produced.
RECURSIVE lines(_)
lines(s) ==
    IF s = <<>> THEN <<>>
    ELSE LET i == FirstNL(s) IN
         IF i = 0 THEN <<s>>
         ELSE <<strip_suffix(SubSeq(s, 1, i - 1), CR)>> \o lines(SubSeq(s, i + 1, Len(s)))

\* "\n".repeat(n) and the padding of format!
repeat(c, n) == [i \in 1..n |-> c]

Max(a, b) == IF a >= b THEN a ELSE b

\* Faulty variant of pad_left_aligned: the spaces go in front of the line ({:>width$}).
pad_right_aligned(line, width) ==
    IF Len(line) >= width THEN line ELSE repeat(SP, width - Len(line)) \o line

\* format!("{line:<width$}"): the line, then spaces up to width characters.
pad_left_aligned(line, width) ==
    IF Len(line) >= width THEN line ELSE line \o repeat(SP, width - Len(line))

----------------------------------------------------------------------------
(* soulver.rs *)

run_raw_soulver(file, p) ==
    IF p.kind # "ok" THEN Err
    ELSE Ok(strip_suffix(p.stdout, NL))

\* Faulty variant of is_blank_or_comment: "//" comments are not recognised.
is_blank_or_hash_comment(line_str) ==
    line_str = <<>> \/ starts_with(line_str, <<"#">>)

is_blank_or_comment(line_str) ==
    line_str = <<>> \/ starts_with(line_str, <<"#">>) \/ starts_with(line_str, <<"/", "/">>)

\* Faulty variant of get_number_of_initial_newlines: filter instead of take_while.
RECURSIVE get_number_of_matching_lines(_)
get_number_of_matching_lines(ls) ==
    IF ls = <<>> THEN 0
    ELSE (IF is_blank_or_comment(Head(ls)) THEN 1 ELSE 0)
            + get_number_of_matching_lines(Tail(ls))

RECURSIVE get_number_of_initial_newlines(_)
get_number_of_initial_newlines(ls) ==
    IF ls = <<>> THEN 0
    ELSE IF is_blank_or_comment(Head(ls))
         THEN 1 + get_number_of_initial_newlines(Tail(ls))
         ELSE 0

\* Faulty variant of run_soulver: the newlines are pushed at the end of the output.
run_soulver_appending(file, p) ==
    LET trimmed_input == trim_end(file)
        raw == run_raw_soulver(trimmed_input, p)
        n == get_number_of_initial_newlines(lines(trimmed_input))
    IN  IF ~raw.ok THEN Err
        ELSE IF n > 0 THEN Ok(raw.text \o repeat(NL, n))
        ELSE Ok(raw.text)

run_soulver(file, p) ==
    LET trimmed_input == trim_end(file)
        raw == run_raw_soulver(trimmed_input, p)
        n == get_number_of_initial_newlines(lines(trimmed_input))
    IN  IF ~raw.ok THEN Err
        ELSE IF n > 0 THEN Ok(repeat(NL, n) \o raw.text)
        ELSE Ok(raw.text)

\* Faulty variant of longest_input_line_length: line.len(), the length in UTF-8 bytes.
Utf8Len(c) == IF c = "£" THEN 2 ELSE 1

RECURSIVE ByteLen(_)
ByteLen(line) == IF line = <<>> THEN 0 ELSE Utf8Len(Head(line)) + ByteLen(Tail(line))

RECURSIVE longest_input_line_bytes(_)
longest_input_line_bytes(input_lines) ==
    IF input_lines = <<>> THEN 0
    ELSE Max(ByteLen(Head(input_lines)), longest_input_line_bytes(Tail(input_lines)))

RECURSIVE longest_input_line_length(_)
longest_input_line_length(input_lines) ==
    IF input_lines = <<>> THEN 0
    ELSE Max(Len(Head(input_lines)), longest_input_line_length(Tail(input_lines)))

\* Faulty variant of format_row: one format string for both cases.
format_row_one_format(input_line, output_line, width) ==
    pad_left_aligned(input_line, width) \o <<SP, "|", SP>> \o output_line \o <<NL>>

format_row(input_line, output_line, width) ==
    IF output_line = <<>>
    THEN pad_left_aligned(input_line, width) \o <<SP, "|", NL>>
    ELSE pad_left_aligned(input_line, width) \o <<SP, "|", SP>> \o output_line \o <<NL>>

\* The for loop over input_lines.iter().zip(output_lines.iter()).
RECURSIVE push_rows(_, _, _)
push_rows(input_lines, output_lines, width) ==
    IF input_lines = <<>> \/ output_lines = <<>> THEN <<>>
    ELSE format_row(Head(input_lines), Head(output_lines), width)
            \o push_rows(Tail(input_lines), Tail(output_lines), width)

\* Faulty variant of run_soulver_zipped: no ensure!, zip stops at the shorter sequence.
run_soulver_zipped_no_ensure(file, p) ==
    LET trimmed_input == trim_end(file)
        output == run_soulver(trimmed_input, p)
    IN  IF ~output.ok THEN Err
        ELSE LET output_lines == lines(output.text)
                 input_lines == lines(trimmed_input)
                 width == longest_input_line_length(input_lines)
             IN  Ok(strip_suffix(push_rows(input_lines, output_lines, width), NL))

\* Faulty variant of run_soulver_zipped: the final newline is not popped.
run_soulver_zipped_no_pop(file, p) ==
    LET trimmed_input == trim_end(file)
        output == run_soulver(trimmed_input, p)
    IN  IF ~output.ok THEN Err
        ELSE LET output_lines == lines(output.text)
                 input_lines == lines(trimmed_input)
                 width == longest_input_line_length(input_lines)
             IN  IF Len(input_lines) # Len(output_lines) THEN Err
                 ELSE Ok(push_rows(input_lines, output_lines, width))

run_soulver_zipped(file, p) ==
    LET trimmed_input == trim_end(file)
        output == run_soulver(trimmed_input, p)
    IN  IF ~output.ok THEN Err
        ELSE LET output_lines == lines(output.text)
                 input_lines == lines(trimmed_input)
                 width == longest_input_line_length(input_lines)
             IN  IF Len(input_lines) # Len(output_lines) THEN Err
                 ELSE Ok(strip_suffix(push_rows(input_lines, output_lines, width), NL))

----------------------------------------------------------------------------
(* main.rs: the calculate subcommand *)

\* The text run_raw_soulver hands to the soulver process: run_soulver trims
\* its argument, and run_soulver_zipped trims before calling run_soulver.
soulver_argument(file, flag) ==
    IF flag THEN trim_end(file) ELSE trim_end(trim_end(file))

Init ==
    /\ pc = "main"
    /\ input \in Inputs
    /\ no_zip = FALSE
    /\ soulver_arg = <<>>
    /\ proc = [kind |-> "none", stdout |-> <<>>]
    /\ result = Err
    /\ arg_lines = <<>>
    /\ initial_newlines = 0

Calculate(flag) ==
    /\ pc = "main"
    /\ \E p \in ProcOutcomes :
        /\ proc' = p
        /\ result' = IF flag THEN run_soulver(input, p) ELSE run_soulver_zipped(input, p)
    /\ no_zip' = flag
    /\ soulver_arg' = soulver_argument(input, flag)
    /\ pc' = "done"
    /\ UNCHANGED <<input, arg_lines, initial_newlines>>

CalculateNoZip == Calculate(TRUE)

CalculateZipped == Calculate(FALSE)

Next == CalculateNoZip \/ CalculateZipped

Spec == Init /\ [][Next]_vars

----------------------------------------------------------------------------
(* get_number_of_initial_newlines on its own, as its unit tests call it *)

InitLines ==
    /\ pc = "lines"
    /\ input = <<>>
    /\ no_zip = FALSE
    /\ soulver_arg = <<>>
    /\ proc = [kind |-> "none", stdout |-> <<>>]
    /\ result = Err
    /\ arg_lines \in LineSeqs
    /\ initial_newlines = 0

CountInitialNewlines ==
    /\ pc = "lines"
    /\ initial_newlines' = get_number_of_initial_newlines(arg_lines)
    /\ pc' = "counted"
    /\ UNCHANGED <<input, no_zip, soulver_arg, proc, result, arg_lines>>

NextLines == CountInitialNewlines

SpecLines == InitLines /\ [][NextLines]_vars

----------------------------------------------------------------------------
(* Vocabulary of the properties *)

MaxSuffixLen == 1

WhitespaceSuffixes == SeqsUpTo({SP, NL, "\t"}, MaxSuffixLen)

Done == pc = "done"

EvaluatorOk == proc.kind = "ok"

TrimmedInput == trim_end(input)

InputLines == lines(TrimmedInput)

\* The evaluator's output as run_raw_soulver returns it.
RawOutput == strip_suffix(proc.stdout, NL)

\* The text run_soulver returns for this input and this evaluator output.
RepairedOutput == run_soulver(input, proc).text

\* The pieces of a text between its newlines: one more than it has newlines.
RECURSIVE SplitNL(_)
SplitNL(s) ==
    LET i == FirstNL(s) IN
    IF i = 0 THEN <<s>>
    ELSE <<SubSeq(s, 1, i - 1)>> \o SplitNL(SubSeq(s, i + 1, Len(s)))

RECURSIVE JoinNL(_)
JoinNL(ls) ==
    IF ls = <<>> THEN <<>>
    ELSE IF Len(ls) = 1 THEN ls[1]
    ELSE ls[1] \o <<NL>> \o JoinNL(Tail(ls))

Spaces(n) == [i \in 1..n |-> SP]

RECURSIVE TrimTrailingSpaces(_)
TrimTrailingSpaces(s) ==
    IF s # <<>> /\ s[Len(s)] = SP THEN TrimTrailingSpaces(SubSeq(s, 1, Len(s) - 1)) ELSE s

BlankOrComment(l) ==
    \/ l = <<>>
    \/ l[1] = "#"
    \/ Len(l) >= 2 /\ l[1] = "/" /\ l[2] = "/"

\* Length of the longest prefix of ls made of blank-or-comment lines.
LongestBlankOrCommentPrefix(ls) ==
    CHOOSE n \in 0..Len(ls) :
        /\ \A i \in 1..n : BlankOrComment(ls[i])
        /\ n = Len(ls) \/ ~BlankOrComment(ls[n + 1])

\* The greatest character count among the lines, 0 when there is none.
WidestLine(ls) ==
    IF ls = <<>> THEN 0
    ELSE CHOOSE w \in {Len(ls[i]) : i \in 1..Len(ls)} :
            \A i \in 1..Len(ls) : Len(ls[i]) <= w

\* The rows of a zipped report, one per input line.
ResultRows == IF InputLines = <<>> THEN <<>> ELSE SplitNL(result.text)

ZippedOk == Done /\ ~no_zip /\ result.ok

----------------------------------------------------------------------------
(* C1 *)

\* The evaluator contract C1 assumes: the raw output is one result line per
\* input line after the k leading blank-or-comment lines, joined by newlines.
ObeysContract ==
    LET k == LongestBlankOrCommentPrefix(InputLines) IN
    /\ EvaluatorOk
    /\ k < Len(InputLines)
    /\ Len(SplitNL(RawOutput)) = Len(InputLines) - k

\* C1: whenever the trimmed input is k leading blank-or-comment lines followed
\* by at least one other line and the evaluator obeys its contract, the
\* repaired output has as many lines as the trimmed input, and the length
\* check of run_soulver_zipped passes.
C1_Alignment ==
    (Done /\ ObeysContract) =>
        /\ Len(lines(RepairedOutput)) = Len(InputLines)
        /\ ~no_zip => result.ok

----------------------------------------------------------------------------
(* C2 *)

\* C2: if the repaired output and the trimmed input differ in their number of
\* lines, run_soulver_zipped returns an error and no text; a report it does
\* return has one row for every input line and every output line.
C2_MisalignmentDetected ==
    (Done /\ ~no_zip /\ EvaluatorOk) =>
        /\ Len(lines(RepairedOutput)) # Len(InputLines) => (~result.ok /\ result.text = <<>>)
        /\ result.ok =>
            /\ Len(ResultRows) = Len(InputLines)
            /\ Len(ResultRows) = Len(lines(RepairedOutput))

C2_Witness ==
    /\ Done /\ ~no_zip /\ EvaluatorOk
    /\ Len(lines(RepairedOutput)) < Len(InputLines)
    /\ Len(lines(RepairedOutput)) > 0
    /\ ~result.ok

----------------------------------------------------------------------------
(* C3 *)

ExpectedRow(i) ==
    LET out == lines(RepairedOutput)[i]
        inp == InputLines[i]
    IN  inp \o Spaces(WidestLine(InputLines) - Len(inp)) \o <<SP, "|">>
            \o (IF out = <<>> THEN <<>> ELSE <<SP>> \o out)

\* C3: a report is one row per input line, in order, joined by single
\* newlines; row i is input line i padded with spaces to the column width,
\* a space and "|", then nothing if output line i is empty and a space and
\* output line i otherwise.
C3_RowRendering ==
    ZippedOk => result.text = JoinNL([i \in 1..Len(InputLines) |-> ExpectedRow(i)])

C3_Witness ==
    /\ ZippedOk
    /\ Len(InputLines) >= 2
    /\ \E i, j \in 1..Len(InputLines) :
        /\ lines(RepairedOutput)[i] = <<>>
        /\ lines(RepairedOutput)[j] # <<>>
        /\ Len(InputLines[j]) < WidestLine(InputLines)

----------------------------------------------------------------------------
(* C4 *)

\* C4: the column width is the greatest number of scalar values in a line of
\* the trimmed input (0 without lines): every row is its input line, then
\* width minus that line's character count spaces, then " |".
C4_WidthInCharacters ==
    ZippedOk =>
        /\ longest_input_line_length(InputLines) = WidestLine(InputLines)
        /\ InputLines = <<>> => longest_input_line_length(InputLines) = 0
        /\ \A i \in 1..Len(InputLines) :
            starts_with(ResultRows[i],
                        InputLines[i]
                            \o Spaces(WidestLine(InputLines) - Len(InputLines[i]))
                            \o <<SP, "|">>)

C4_Witness ==
    /\ ZippedOk
    /\ \E i, j \in 1..Len(InputLines) :
        /\ Len(InputLines[i]) = WidestLine(InputLines)
        /\ \E n \in 1..Len(InputLines[i]) : InputLines[i][n] = "£"
        /\ Len(InputLines[j]) < Len(InputLines[i])

----------------------------------------------------------------------------
(* C5 *)

NoExpression ==
    /\ EvaluatorOk
    /\ RawOutput = <<>>
    /\ \A i \in 1..Len(InputLines) : BlankOrComment(InputLines[i])

\* C5: when the trimmed input is empty or has only blank and comment lines
\* and the evaluator returns the empty text, run_soulver returns as many
\* empty lines as the trimmed input has lines, and run_soulver_zipped returns
\* one row per input line, each the padded line followed by a bare " |".
C5_NoExpression ==
    (Done /\ NoExpression) =>
        /\ result.ok
        /\ InputLines = <<>> => result.text = <<>>
        /\ no_zip => lines(result.text) = [i \in 1..Len(InputLines) |-> <<>>]
        /\ ~no_zip =>
            /\ Len(ResultRows) = Len(InputLines)
            /\ \A i \in 1..Len(InputLines) :
                ResultRows[i] = InputLines[i]
                    \o Spaces(WidestLine(InputLines) - Len(InputLines[i]))
                    \o <<SP, "|">>

C5_Witness ==
    /\ Done /\ NoExpression /\ ~no_zip
    /\ Len(InputLines) >= 2
    /\ \E i, j \in 1..Len(InputLines) :
        /\ InputLines[i] = <<>>
        /\ starts_with(InputLines[j], <<"/", "/">>)

----------------------------------------------------------------------------
(* C6 *)

\* C6 as stated: the text a calculate call returns never ends with a newline,
\* in either mode, and a zipped report never starts with one.
C6_NoTrailingNewline ==
    (Done /\ result.ok) =>
        /\ ~ends_with(result.text, NL)
        /\ ~no_zip => ~starts_with(result.text, <<NL>>)

\* C6 amended: a zipped report neither ends nor starts with a newline; the
\* plain text ends with a newline exactly when the raw evaluator output ends
\* with one, or is empty while the trimmed input starts with a blank or
\* comment line.
C6_NoTrailingNewlineZipped ==
    (Done /\ result.ok) =>
        /\ ~no_zip => (~ends_with(result.text, NL) /\ ~starts_with(result.text, <<NL>>))
        /\ no_zip =>
            (ends_with(result.text, NL) <=>
                \/ ends_with(RawOutput, NL)
                \/ RawOutput = <<>> /\ LongestBlankOrCommentPrefix(InputLines) > 0)

C6_Witness ==
    /\ ZippedOk
    /\ Len(InputLines) >= 2
    /\ lines(RepairedOutput)[Len(InputLines)] = <<>>

----------------------------------------------------------------------------
(* C7 *)

\* C7: a call on the input followed by any whitespace string hands the
\* evaluator the same text and, for the same evaluator answer, returns the
\* same result as the call on the input, in both modes.
C7_TrailingWhitespace ==
    Done =>
        \A w \in WhitespaceSuffixes :
            /\ soulver_argument(input \o w, no_zip) = soulver_arg
            /\ (IF no_zip THEN run_soulver(input \o w, proc)
                          ELSE run_soulver_zipped(input \o w, proc)) = result

C7_Witness ==
    /\ Done /\ result.ok /\ result.text # <<>>
    /\ input # TrimmedInput
    /\ TrimmedInput # <<>>

----------------------------------------------------------------------------
(* C8 *)

\* The padded input line of row i, as it stands in the report.
PaddedLine(i) == SubSeq(ResultRows[i], 1, longest_input_line_length(InputLines))

\* C8 as stated: padding any input line to the column width and trimming
\* trailing spaces returns the line, also when the line ends in spaces.
C8_PadThenTrim ==
    ZippedOk =>
        \A i \in 1..Len(InputLines) : TrimTrailingSpaces(PaddedLine(i)) = InputLines[i]

\* C8 amended: padding an input line to the column width and trimming
\* trailing spaces returns the line without its own trailing spaces, which is
\* the line itself when it does not end in a space.
C8_PadThenTrimNoTrailingSpace ==
    ZippedOk =>
        \A i \in 1..Len(InputLines) :
            /\ TrimTrailingSpaces(PaddedLine(i)) = TrimTrailingSpaces(InputLines[i])
            /\ ~ends_with(InputLines[i], SP) =>
                    TrimTrailingSpaces(PaddedLine(i)) = InputLines[i]

C8_Witness ==
    /\ ZippedOk
    /\ \E i \in 1..Len(InputLines) :
        /\ InputLines[i] # <<>>
        /\ ~ends_with(InputLines[i], SP)
        /\ Len(InputLines[i]) < WidestLine(InputLines)

----------------------------------------------------------------------------
(* C9 *)

\* C9: get_number_of_initial_newlines returns the length of the longest
\* prefix whose lines are all empty or start with "#" or "//"; nothing at or
\* after the first other line is counted.
C9_LeadingCount ==
    pc = "counted" =>
        /\ initial_newlines = LongestBlankOrCommentPrefix(arg_lines)
        /\ initial_newlines < Len(arg_lines) =>
                ~BlankOrComment(arg_lines[initial_newlines + 1])

C9_Witness ==
    /\ pc = "counted"
    /\ initial_newlines = 1
    /\ Len(arg_lines) = 3
    /\ arg_lines[2] = <<SP, "#">>
    /\ arg_lines[3] = <<>>

----------------------------------------------------------------------------
(* C10 *)

\* C10: run_soulver returns the raw output with exactly N newlines, N the
\* leading count of the trimmed input, in front of it and nothing else
\* changed: the raw output is the suffix of the returned text, whose lines
\* are N empty lines followed by the lines of the raw output.
C10_RepairKeepsRaw ==
    (Done /\ no_zip /\ EvaluatorOk) =>
        LET N == LongestBlankOrCommentPrefix(InputLines) IN
        /\ result.ok
        /\ Len(result.text) = N + Len(RawOutput)
        /\ \A i \in 1..N : result.text[i] = NL
        /\ SubSeq(result.text, N + 1, Len(result.text)) = RawOutput
        /\ N = 0 => result.text = RawOutput
        /\ lines(result.text) = [i \in 1..N |-> <<>>] \o lines(RawOutput)

C10_Witness ==
    /\ Done /\ no_zip /\ EvaluatorOk
    /\ LongestBlankOrCommentPrefix(InputLines) >= 2
    /\ RawOutput # <<>>

====
